---- MODULE Spec2Model ----
(***************************************************************************)
(* Cycle detection on Ethereum transactions: the Wei value parser          *)
(* (wei_parser.c), the identifier hash map, the two-pass graph loader, the *)
(* adjacency-list multigraph and the DFS cycle detector (graph.c).         *)
(*                                                                         *)
(* Strings are sequences of one-character strings.  A GMP integer (mpz_t)  *)
(* is held exactly, in decimal scientific form [m, z] meaning m * 10^z,    *)
(* normalised so that m is not a multiple of 10 (and z = 0 when m = 0):    *)
(* two mpz values are equal iff their records are equal.                   *)
(***************************************************************************)
EXTENDS Integers, Sequences, FiniteSets, TLC

VARIABLES
    \* ---- wei_parser.c: parse_wei_optimized on a context
    s,            \* the token handed to parse_wei_optimized
    ctx,          \* parse_wei_ctx_t: mantissa_int, power_of_10, remainder, pow10_cache
    out,          \* the caller's mpz_t out (parsed_value in hashToGraph)
    rc,           \* the return code of the last call
    ppc,          \* "idle", "ready" (before the call), "done" (after it)
    \* ---- graph.c: the graph and insertEdge
    G,            \* GraphDS: vertexAmount, edgesAmount, adjList
    call,         \* the arguments of the last insertEdge call
    ret,          \* the value the last insertEdge call returned
    inserted,     \* the calls that returned 1, oldest first (history)
    \* ---- graph.c: depthFirstSearch and recursiveDFS
    visited, recStack, path, valuesPath, depth,
    stack,        \* the active recursiveDFS calls, outermost first: [v, curr]
    dv,           \* the loop variable v of depthFirstSearch
    total_cycles_found,
    pfile,        \* the output FILE* p: "none", "NULL", "open", "closed"
    output,       \* the cycle records written to the file, in order
    trace,        \* the entries and edge examinations of the run, in order (history)
    firstRun,     \* the results of the first of two runs, <<>> before (history)
    dpc,          \* "idle", "building", "built", "loop", "rec", "returned"
    \* ---- graph.c: the hash map and loadGraph
    file,         \* the input file: its lines, each a sequence of fields
    fpos,         \* the read position of the file, in fields
    vertex_map,   \* the global hash map: key -> index
    index,        \* the next free index (index of addAllVertexToHashmap)
    ti,           \* the loop variable i of hashToGraph
    lpc           \* "idle", "pass1", "pass2", "loaded", "segfault"

parserVars == <<s, ctx, out, rc, ppc>>

graphVars == <<G, call, ret, inserted>>

dfsVars ==
    <<visited, recStack, path, valuesPath, depth, stack, dv, total_cycles_found,
      pfile, output, dpc, trace, firstRun>>

loadVars == <<file, fpos, vertex_map, index, ti, lpc>>

vars == <<parserVars, graphVars, dfsVars, loadVars>>

(***************************************************************************)
(* Bounds and program constants                                            *)
(***************************************************************************)
MaxTokLen == 5

MaxV == 3

MaxEdges == 3

MaxCalls == 2

MaxLines == 3

POW10_CACHE_SIZE == 60

(***************************************************************************)
(* Characters (ctype.h)                                                    *)
(***************************************************************************)
Digits == {"0", "1", "2", "3", "4", "5", "6", "7", "8", "9"}

isdigit(c) == c \in Digits

DigitVal(c) ==
    CASE c = "0" -> 0 [] c = "1" -> 1 [] c = "2" -> 2 [] c = "3" -> 3
      [] c = "4" -> 4 [] c = "5" -> 5 [] c = "6" -> 6 [] c = "7" -> 7
      [] c = "8" -> 8 [] c = "9" -> 9

isspace(c) == c \in {" ", "\t", "\n", "\r"}

(***************************************************************************)
(* GMP integers                                                            *)
(***************************************************************************)
RECURSIVE Pow10(_)
Pow10(n) == IF n = 0 THEN 1 ELSE 10 * Pow10(n - 1)

RECURSIVE IntPow(_, _)
IntPow(b, n) == IF n = 0 THEN 1 ELSE b * IntPow(b, n - 1)

RECURSIVE Mpz(_, _)
Mpz(m, z) ==
    IF m = 0 THEN [m |-> 0, z |-> 0]
    ELSE IF m % 10 = 0 THEN Mpz(m \div 10, z + 1)
    ELSE [m |-> m, z |-> z]

mpz_init == Mpz(0, 0)

mpz_set_ui(n) == Mpz(n, 0)

mpz_mul_ui(a, n) == Mpz(a.m * n, a.z)

mpz_add_ui(a, n) == IF n = 0 THEN a ELSE Mpz(a.m * Pow10(a.z) + n, 0)

mpz_mul(a, b) == Mpz(a.m * b.m, a.z + b.z)

mpz_ui_pow_ui(base, e) ==
    LET b == Mpz(base, 0)
    IN  IF b.m = 0 THEN (IF e = 0 THEN Mpz(1, 0) ELSE Mpz(0, 0))
        ELSE Mpz(IF b.m = 1 THEN 1 ELSE IntPow(b.m, e), b.z * e)

RECURSIVE NumDigits(_)
NumDigits(n) == IF n < 10 THEN 1 ELSE 1 + NumDigits(n \div 10)

Abs(n) == IF n < 0 THEN -n ELSE n

Sign(a) == IF a.m > 0 THEN 1 ELSE IF a.m < 0 THEN -1 ELSE 0

\* Compare the magnitudes of two nonzero values: by decimal length, then digits.
CmpMagnitude(a, b) ==
    LET la == NumDigits(Abs(a.m)) + a.z
        lb == NumDigits(Abs(b.m)) + b.z
        k  == IF a.z < b.z THEN a.z ELSE b.z
        am == Abs(a.m) * Pow10(a.z - k)
        bm == Abs(b.m) * Pow10(b.z - k)
    IN  IF la < lb THEN -1 ELSE IF la > lb THEN 1
        ELSE IF am < bm THEN -1 ELSE IF am > bm THEN 1 ELSE 0

mpz_cmp(a, b) ==
    IF Sign(a) # Sign(b) THEN (IF Sign(a) < Sign(b) THEN -1 ELSE 1)
    ELSE IF Sign(a) = 0 THEN 0
    ELSE IF Sign(a) > 0 THEN CmpMagnitude(a, b)
    ELSE -CmpMagnitude(a, b)

mpz_cmp_ui(a, n) == mpz_cmp(a, Mpz(n, 0))

\* Truncating division n / d of a non-negative n by a positive d: <<q, r>>.
mpz_tdiv_qr(n, d) ==
    IF d.m = 1
    THEN IF n.z >= d.z THEN [q |-> Mpz(n.m, n.z - d.z), r |-> Mpz(0, 0)]
         ELSE IF d.z - n.z > 9 THEN [q |-> Mpz(0, 0), r |-> n]
         ELSE [q |-> Mpz(n.m \div Pow10(d.z - n.z), 0),
               r |-> Mpz(n.m % Pow10(d.z - n.z), n.z)]
    ELSE LET k  == IF n.z < d.z THEN n.z ELSE d.z
             nn == n.m * Pow10(n.z - k)
             dd == d.m * Pow10(d.z - k)
         IN  [q |-> Mpz(nn \div dd, 0), r |-> Mpz(nn % dd, k)]

(***************************************************************************)
(* string.h / stdlib.h                                                     *)
(***************************************************************************)
strlen(str) == Len(str)

\* strpbrk(s, "eE"): the position of the first 'e' or 'E', 0 for NULL.
strpbrk_eE(str) ==
    IF \E i \in 1..Len(str) : str[i] \in {"e", "E"}
    THEN CHOOSE i \in 1..Len(str) :
            /\ str[i] \in {"e", "E"}
            /\ \A j \in 1..(i - 1) : str[j] \notin {"e", "E"}
    ELSE 0

RECURSIVE strtol_digits(_, _, _)
strtol_digits(str, i, acc) ==
    IF i <= Len(str) /\ isdigit(str[i])
    THEN strtol_digits(str, i + 1, acc * 10 + DigitVal(str[i]))
    ELSE acc

RECURSIVE strtol_skip(_, _)
strtol_skip(str, i) ==
    IF i <= Len(str) /\ isspace(str[i]) THEN strtol_skip(str, i + 1) ELSE i

\* strtol(str + from - 1, NULL, 10)
strtol(str, from) ==
    LET i   == strtol_skip(str, from)
        neg == i <= Len(str) /\ str[i] = "-"
        j   == IF i <= Len(str) /\ str[i] \in {"+", "-"} THEN i + 1 ELSE i
        v   == strtol_digits(str, j, 0)
    IN  IF neg THEN -v ELSE v

(***************************************************************************)
(* wei_parser.c                                                            *)
(***************************************************************************)
RECURSIVE pow10_cache_fill(_, _)
pow10_cache_fill(cache, i) ==
    IF i >= POW10_CACHE_SIZE THEN cache
    ELSE pow10_cache_fill([cache EXCEPT ![i] = mpz_mul_ui(cache[i - 1], 10)], i + 1)

parse_wei_ctx_create ==
    [mantissa_int |-> mpz_init,
     power_of_10  |-> mpz_init,
     remainder    |-> mpz_init,
     pow10_cache  |-> pow10_cache_fill(
                         [i \in 0..(POW10_CACHE_SIZE - 1) |->
                             IF i = 0 THEN mpz_set_ui(1) ELSE mpz_init], 1)]

\* The for loop of lines 90-105 from position p; bad is the early return -1.
\* A variant that drops an invalid character instead of returning -1.
RECURSIVE MantissaLoop_skipInvalid(_, _, _, _)
MantissaLoop_skipInvalid(str, p, mantissa_end, st) ==
    IF p >= mantissa_end THEN st
    ELSE IF isdigit(str[p])
    THEN MantissaLoop_skipInvalid(str, p + 1, mantissa_end,
            [st EXCEPT !.has_digits = 1,
                       !.mantissa_int =
                           mpz_add_ui(mpz_mul_ui(st.mantissa_int, 10), DigitVal(str[p])),
                       !.decimal_places =
                           IF st.dot_found = 1 THEN st.decimal_places + 1
                           ELSE st.decimal_places])
    ELSE IF str[p] = "." /\ st.dot_found = 0
    THEN MantissaLoop_skipInvalid(str, p + 1, mantissa_end, [st EXCEPT !.dot_found = 1])
    ELSE MantissaLoop_skipInvalid(str, p + 1, mantissa_end, st)

\* A variant that lets a sign pass at any place of the mantissa region.
RECURSIVE MantissaLoop_signAnywhere(_, _, _, _)
MantissaLoop_signAnywhere(str, p, mantissa_end, st) ==
    IF p >= mantissa_end THEN st
    ELSE IF isdigit(str[p])
    THEN MantissaLoop_signAnywhere(str, p + 1, mantissa_end,
            [st EXCEPT !.has_digits = 1,
                       !.mantissa_int =
                           mpz_add_ui(mpz_mul_ui(st.mantissa_int, 10), DigitVal(str[p])),
                       !.decimal_places =
                           IF st.dot_found = 1 THEN st.decimal_places + 1
                           ELSE st.decimal_places])
    ELSE IF str[p] = "." /\ st.dot_found = 0
    THEN MantissaLoop_signAnywhere(str, p + 1, mantissa_end, [st EXCEPT !.dot_found = 1])
    ELSE IF str[p] \in {"+", "-"}
    THEN MantissaLoop_signAnywhere(str, p + 1, mantissa_end, st)
    ELSE [st EXCEPT !.bad = TRUE]

RECURSIVE MantissaLoop(_, _, _, _)
MantissaLoop(str, p, mantissa_end, st) ==
    IF p >= mantissa_end THEN st
    ELSE IF isdigit(str[p])
    THEN MantissaLoop(str, p + 1, mantissa_end,
            [st EXCEPT !.has_digits = 1,
                       !.mantissa_int =
                           mpz_add_ui(mpz_mul_ui(st.mantissa_int, 10), DigitVal(str[p])),
                       !.decimal_places =
                           IF st.dot_found = 1 THEN st.decimal_places + 1
                           ELSE st.decimal_places])
    ELSE IF str[p] = "." /\ st.dot_found = 0
    THEN MantissaLoop(str, p + 1, mantissa_end, [st EXCEPT !.dot_found = 1])
    ELSE IF str[p] \in {"+", "-"} /\ p = 1
    THEN MantissaLoop(str, p + 1, mantissa_end, st)
    ELSE [st EXCEPT !.bad = TRUE]

\* The power of ten of lines 118-122 and 128-132: ctx->power_of_10 for 10^n.
\* A variant that serves every power from the cache, clamping the index.
PowerOfTen_cacheOnly(c, n) ==
    c.pow10_cache[IF n < POW10_CACHE_SIZE THEN n ELSE POW10_CACHE_SIZE - 1]

PowerOfTen(c, n) ==
    IF n < POW10_CACHE_SIZE THEN c.pow10_cache[n] ELSE mpz_ui_pow_ui(10, n)

\* Lines 116-123: multiply the mantissa by 10^n.
MultiplyByPower(c1, n, o) ==
    LET c2 == [c1 EXCEPT !.power_of_10 = PowerOfTen(c1, n)]
    IN  [rc |-> 0, out |-> mpz_mul(c2.mantissa_int, c2.power_of_10), ctx |-> c2]

\* Lines 125-138: divide the mantissa by 10^divisor_exp, -2 on a remainder.
\* A variant that returns the truncated quotient as a success.
DivideByPower_truncating(c1, divisor_exp, o) ==
    LET c2 == [c1 EXCEPT !.power_of_10 = PowerOfTen(c1, divisor_exp)]
        qr == mpz_tdiv_qr(c2.mantissa_int, c2.power_of_10)
        c3 == [c2 EXCEPT !.remainder = qr.r]
    IN  [rc |-> 0, out |-> qr.q, ctx |-> c3]

DivideByPower(c1, divisor_exp, o) ==
    LET c2 == [c1 EXCEPT !.power_of_10 = PowerOfTen(c1, divisor_exp)]
        qr == mpz_tdiv_qr(c2.mantissa_int, c2.power_of_10)
        c3 == [c2 EXCEPT !.remainder = qr.r]
    IN  IF mpz_cmp_ui(c3.remainder, 0) # 0
        THEN [rc |-> -2, out |-> qr.q, ctx |-> c3]
        ELSE [rc |-> 0, out |-> qr.q, ctx |-> c3]

\* Line 80: the mantissa the loop starts from.
\* A variant that starts from what the previous call left in the context.
MantissaStart_stale(c) == c.mantissa_int

MantissaStart(c) == mpz_set_ui(0)

\* parse_wei_optimized(ctx, s, out): [rc, out, ctx] after the call.
parse_wei_optimized(c, str, o) ==
    LET e_ptr        == strpbrk_eE(str)
        mantissa_end == IF e_ptr # 0 THEN e_ptr ELSE strlen(str) + 1
        st == MantissaLoop(str, 1, mantissa_end,
                 [mantissa_int |-> MantissaStart(c), decimal_places |-> 0,
                  dot_found |-> 0, has_digits |-> 0, bad |-> FALSE])
        c1 == [c EXCEPT !.mantissa_int = st.mantissa_int]
        exponent_val == IF e_ptr # 0 THEN strtol(str, e_ptr + 1) ELSE 0
        final_power_of_10 == exponent_val - st.decimal_places
    IN  IF st.bad THEN [rc |-> -1, out |-> o, ctx |-> c1]
        ELSE IF st.has_digits = 0 THEN [rc |-> -1, out |-> o, ctx |-> c1]
        ELSE IF final_power_of_10 > 0 THEN MultiplyByPower(c1, final_power_of_10, o)
        ELSE IF final_power_of_10 < 0 THEN DivideByPower(c1, -final_power_of_10, o)
        ELSE [rc |-> 0, out |-> c1.mantissa_int, ctx |-> c1]

(***************************************************************************)
(* The parts of the program a run does not use                             *)
(***************************************************************************)
NoGraph == [vertexAmount |-> 0, edgesAmount |-> 0, adjList |-> <<>>]

NoCall == [v |-> 0, w |-> 0, value |-> mpz_init]

ParserIdle ==
    /\ s = <<>> /\ ctx = parse_wei_ctx_create /\ out = mpz_init /\ rc = 0 /\ ppc = "idle"

GraphIdle == G = NoGraph /\ call = NoCall /\ ret = 0 /\ inserted = <<>>

DfsIdle ==
    /\ visited = <<>> /\ recStack = <<>> /\ path = <<>> /\ valuesPath = <<>>
    /\ depth = 0 /\ stack = <<>> /\ dv = 0 /\ total_cycles_found = 0
    /\ pfile = "none" /\ output = <<>> /\ dpc = "idle"
    /\ trace = <<>> /\ firstRun = <<>>

LoadIdle ==
    /\ file = <<>> /\ fpos = 1 /\ vertex_map = <<>> /\ index = 0 /\ ti = 0
    /\ lpc = "idle"

(***************************************************************************)
(* The parser run: one call of parse_wei_optimized on a fresh context.     *)
(***************************************************************************)
Alphabet == {"0", "1", "6", ".", "e", "E", "-", "+", "x"}

ExampleTokens ==
    { <<"1", ".", "2", "3", "e", "4">>, <<"5", "4", "e", "1", "8">>,
      <<"1", "0", "0", "0">>, <<"1", ".", "2", "3", "e", "1">>,
      <<"1", "2", "x", "3">>, <<"+", "5">>, <<"1", "E", "+", "2">>,
      <<"1", "0", "0", "E", "-", "2">>, <<"2", "e", "5", "9">>, <<"2", "e", "6", "0">> }

Tokens == UNION {[1..k -> Alphabet] : k \in 0..MaxTokLen} \cup ExampleTokens

InitParse ==
    /\ s \in Tokens
    /\ ctx = parse_wei_ctx_create
    /\ out = mpz_init
    /\ rc = 0
    /\ ppc = "ready"
    /\ GraphIdle
    /\ DfsIdle
    /\ LoadIdle

Parse ==
    /\ ppc = "ready"
    /\ LET r == parse_wei_optimized(ctx, s, out)
       IN  /\ rc' = r.rc
           /\ out' = r.out
           /\ ctx' = r.ctx
    /\ ppc' = "done"
    /\ UNCHANGED <<s, graphVars, dfsVars, loadVars>>

NextParse == Parse

SpecParse == InitParse /\ [][NextParse]_vars

(***************************************************************************)
(* The reuse run: any number of parse_wei_optimized calls on one context   *)
(* and one out variable, as hashToGraph makes them.                        *)
(***************************************************************************)
ReuseTokens ==
    ExampleTokens \cup { <<>>, <<".">>, <<"0">>, <<"1", ".", "5">>, <<"7", "e", "-", "1">> }

InitReuse ==
    /\ s \in ReuseTokens
    /\ ctx = parse_wei_ctx_create
    /\ out = mpz_init
    /\ rc = 0
    /\ ppc = "ready"
    /\ GraphIdle
    /\ DfsIdle
    /\ LoadIdle

\* A further call on the context and the out variable of the call before.
Reparse ==
    /\ ppc = "done"
    /\ \E tok \in ReuseTokens :
          LET r == parse_wei_optimized(ctx, tok, out)
          IN  /\ s' = tok
              /\ rc' = r.rc
              /\ out' = r.out
              /\ ctx' = r.ctx
    /\ UNCHANGED <<ppc, graphVars, dfsVars, loadVars>>

NextReuse ==
    \/ Parse
    \/ Reparse

SpecReuse == InitReuse /\ [][NextReuse]_vars

(***************************************************************************)
(* graph.c: initGraph and insertEdge.  adjList[v] is the linked list of    *)
(* vertex v, head first; an edge is [destination, transactionValue].       *)
(***************************************************************************)
\* malloc(0), for V = 0, is taken to return a non-null pointer, as glibc does.
initGraph(V) ==
    [vertexAmount |-> V, edgesAmount |-> 0, adjList |-> [i \in 0..(V - 1) |-> <<>>]]

\* insertEdge(G, v, w, value): [ret, G] after the call; mallocOk is whether the
\* allocation of the new node succeeds.
\* A variant that checks only the source index.
insertEdge_sourceCheckOnly(g, v, w, value, mallocOk) ==
    IF v < 0 \/ v >= g.vertexAmount THEN [ret |-> 0, G |-> g]
    ELSE IF ~mallocOk THEN [ret |-> 0, G |-> g]
    ELSE LET newNode == [destination |-> w, transactionValue |-> value]
         IN  [ret |-> 1,
              G   |-> [g EXCEPT !.adjList[v] = <<newNode>> \o @,
                                !.edgesAmount = @ + 1]]

\* A variant that links the new node at the tail of the list.
insertEdge_appending(g, v, w, value, mallocOk) ==
    IF v < 0 \/ v >= g.vertexAmount \/ w < 0 \/ w >= g.vertexAmount
    THEN [ret |-> 0, G |-> g]
    ELSE IF ~mallocOk THEN [ret |-> 0, G |-> g]
    ELSE LET newNode == [destination |-> w, transactionValue |-> value]
         IN  [ret |-> 1,
              G   |-> [g EXCEPT !.adjList[v] = Append(@, newNode),
                                !.edgesAmount = @ + 1]]

insertEdge(g, v, w, value, mallocOk) ==
    IF v < 0 \/ v >= g.vertexAmount \/ w < 0 \/ w >= g.vertexAmount
    THEN [ret |-> 0, G |-> g]
    ELSE IF ~mallocOk THEN [ret |-> 0, G |-> g]
    ELSE LET newNode == [destination |-> w, transactionValue |-> value]
         IN  [ret |-> 1,
              G   |-> [g EXCEPT !.adjList[v] = <<newNode>> \o @,
                                !.edgesAmount = @ + 1]]

\* The edge values of the graph runs: mpz values of either sign.
EdgeValues == {Mpz(-1, 0), Mpz(7, 0)}

(***************************************************************************)
(* The insertEdge run: initGraph(V), then insertEdge calls with arguments  *)
(* inside and outside [0, V).                                              *)
(***************************************************************************)
InitInsert ==
    /\ \E V \in 0..MaxV : G = initGraph(V)
    /\ call = NoCall /\ ret = 0 /\ inserted = <<>>
    /\ ParserIdle
    /\ DfsIdle
    /\ LoadIdle

InsertEdge ==
    /\ Len(inserted) < MaxCalls
    /\ \E v \in -1..G.vertexAmount, w \in -1..G.vertexAmount, value \in EdgeValues,
          mallocOk \in BOOLEAN :
          LET r == insertEdge(G, v, w, value, mallocOk)
          IN  /\ call' = [v |-> v, w |-> w, value |-> value]
              /\ ret' = r.ret
              /\ G' = r.G
              /\ inserted' = IF r.ret = 1 THEN Append(inserted, call') ELSE inserted
    /\ UNCHANGED <<parserVars, dfsVars, loadVars>>

NextInsert == InsertEdge

SpecInsert == InitInsert /\ [][NextInsert]_vars

(***************************************************************************)
(* graph.c: depthFirstSearch and recursiveDFS.  The arrays are functions   *)
(* on 0..vertexAmount-1; stack holds one frame [v, curr] per active        *)
(* recursiveDFS call, curr being the position of the edge under            *)
(* examination in adjList[v] (Len + 1 for NULL).  A buffer that is not     *)
(* allocated, before the call or after free, is the empty function <<>>.   *)
(***************************************************************************)
Top == stack[Len(stack)]

CurrEdge(f) == G.adjList[f.v][f.curr]

AtNull(f) == f.curr > Len(G.adjList[f.v])

\* The events of trace (history): recursiveDFS(v) was entered; the edge at
\* position i of adjList[v] was examined by the loop of lines 281-326.
EnterEvent(v) == [ev |-> "enter", v |-> v, i |-> 0]

EdgeEvent(f) == [ev |-> "edge", v |-> f.v, i |-> f.curr]

\* Line 284: !visited[w].
\* A variant that takes every vertex off the recursion stack for unvisited.
IsUnvisited_offStack(w) == recStack[w] = 0

IsUnvisited(w) == visited[w] = 0

\* Line 287: recStack[w].
\* A variant that takes every visited vertex for one on the recursion stack.
OnRecStack_always(w) == TRUE

OnRecStack(w) == recStack[w] # 0

\* Lines 288-290: the number printed after "Cycle #", c being the counter after
\* its increment.
\* A variant that prints the counter as it was before the increment.
PrintedNumber_beforeIncrement(c) == c - 1

PrintedNumber(c) == c

\* Line 380: *total_cycles_found = 0, c being the caller's value.
\* A variant that leaves the caller's value in place.
ResetCount_keep(c) == c

ResetCount(c) == 0

\* Lines 295-298: the position of w in path[0..depth-1], depth if absent.
\* A variant that always reports from the root of the recursion path.
FindStart_fromRoot(pth, dep, w, start_index) == 0

RECURSIVE FindStart(_, _, _, _)
FindStart(pth, dep, w, start_index) ==
    IF start_index < dep /\ pth[start_index] # w
    THEN FindStart(pth, dep, w, start_index + 1)
    ELSE start_index

\* Lines 301-307: the maximum of cycle_max_value and valuesPath[i..depth-2].
RECURSIVE PathMax(_, _, _, _)
PathMax(vals, i, dep, cycle_max_value) ==
    IF i < dep - 1
    THEN PathMax(vals, i + 1, dep,
            IF mpz_cmp(cycle_max_value, vals[i]) < 0 THEN vals[i] ELSE cycle_max_value)
    ELSE cycle_max_value

\* Lines 288-323: the record written for the back edge curr of the frame on top,
\* with valuesPath already holding curr's value at depth - 1.  printed is the
\* index sequence of the "Cycle #n:" line, max the "Max Flow:" value.
CycleRecord(vals, count) ==
    LET curr == CurrEdge(Top)
        w    == curr.destination
        start_index == FindStart(path, depth, w, 0)
        m1   == PathMax(vals, start_index, depth, mpz_init)
        m2   == IF mpz_cmp(m1, curr.transactionValue) < 0
                THEN curr.transactionValue ELSE m1
    IN  [n       |-> PrintedNumber(count),
         printed |-> [i \in 1..(depth - 1 - start_index) |-> path[start_index + i - 1]]
                        \o <<path[depth - 1], w>>,
         max     |-> m2,
         \* history: the values of the edges under examination in the frames of
         \* path[start_index..depth-1], the last being the closing edge
         taken   |-> [i \in 1..(depth - start_index) |->
                        CurrEdge(stack[start_index + i]).transactionValue],
         \* history: the closing edge, as it stands in trace
         edge    |-> EdgeEvent(Top)]

\* Lines 274-279: the entry of recursiveDFS(v).
\* A variant that does not write v to the path buffer.
Enter_pathNotWritten(v, vals) ==
    /\ visited' = [visited EXCEPT ![v] = 1]
    /\ recStack' = [recStack EXCEPT ![v] = 1]
    /\ path' = path
    /\ depth' = depth + 1
    /\ stack' = Append(stack, [v |-> v, curr |-> 1])
    /\ valuesPath' = vals
    /\ dpc' = "rec"

Enter(v, vals) ==
    /\ visited' = [visited EXCEPT ![v] = 1]
    /\ recStack' = [recStack EXCEPT ![v] = 1]
    /\ path' = [path EXCEPT ![depth] = v]
    /\ depth' = depth + 1
    /\ stack' = Append(stack, [v |-> v, curr |-> 1])
    /\ valuesPath' = vals
    /\ dpc' = "rec"

\* Lines 355-364: fopen returned NULL: the buffers are freed and the call returns.
\* A variant that returns without freeing the buffers.
OpenFailure_keepBuffers ==
    /\ pfile' = "NULL"
    /\ visited' = [i \in 0..(G.vertexAmount - 1) |-> 0]
    /\ recStack' = [i \in 0..(G.vertexAmount - 1) |-> 0]
    /\ path' = [i \in 0..(G.vertexAmount - 1) |-> -1]
    /\ valuesPath' = [i \in 0..(G.vertexAmount - 1) |-> mpz_init]
    /\ dpc' = "returned"
    /\ UNCHANGED <<depth, stack, dv, total_cycles_found, output, trace>>

OpenFailure ==
    /\ pfile' = "NULL"
    /\ visited' = <<>> /\ recStack' = <<>>
    /\ path' = <<>> /\ valuesPath' = <<>>
    /\ dpc' = "returned"
    /\ UNCHANGED <<depth, stack, dv, total_cycles_found, output, trace>>

\* Lines 366-374: an allocation failed: the buffers are freed, the file (opened
\* with "w", so emptied) is closed and the call returns.
AllocFailure ==
    /\ pfile' = "closed"
    /\ output' = <<>>
    /\ visited' = <<>> /\ recStack' = <<>>
    /\ path' = <<>> /\ valuesPath' = <<>>
    /\ dpc' = "returned"
    /\ UNCHANGED <<depth, stack, dv, total_cycles_found, trace>>

\* Lines 349-354 and 376-380: the buffers, the emptied output file, the counter.
StartLoop ==
    /\ pfile' = "open"
    /\ output' = <<>>
    /\ visited' = [i \in 0..(G.vertexAmount - 1) |-> 0]
    /\ recStack' = [i \in 0..(G.vertexAmount - 1) |-> 0]
    \* malloc: the contents are indeterminate; no entry is read before
    \* recursiveDFS writes it
    /\ path' = [i \in 0..(G.vertexAmount - 1) |-> -1]
    /\ valuesPath' = [i \in 0..(G.vertexAmount - 1) |-> mpz_init]
    /\ depth' = 0
    /\ total_cycles_found' = ResetCount(total_cycles_found)
    /\ dv' = 0
    /\ dpc' = "loop"
    /\ UNCHANGED <<stack, trace>>

\* Lines 346-380: the entry of depthFirstSearch, up to the loop.
DepthFirstSearch ==
    /\ dpc = "built"
    /\ IF G.vertexAmount = 0
       THEN /\ dpc' = "returned"
            /\ UNCHANGED <<visited, recStack, path, valuesPath, depth, stack, dv,
                           total_cycles_found, pfile, output, trace>>
       ELSE \E fopenOk \in BOOLEAN, allocOk \in BOOLEAN :
            IF ~fopenOk THEN OpenFailure
            ELSE IF ~allocOk THEN AllocFailure
            ELSE StartLoop
    /\ UNCHANGED <<firstRun, parserVars, graphVars, loadVars>>

\* Lines 381-384: the loop calls recursiveDFS on an unvisited vertex.
RootCall ==
    /\ dpc = "loop" /\ dv < G.vertexAmount /\ visited[dv] = 0
    /\ Enter(dv, valuesPath)
    /\ trace' = Append(trace, EnterEvent(dv))
    /\ UNCHANGED <<dv, total_cycles_found, pfile, output, firstRun,
                   parserVars, graphVars, loadVars>>

\* Lines 381-382: the loop passes a visited vertex.
RootSkip ==
    /\ dpc = "loop" /\ dv < G.vertexAmount /\ visited[dv] # 0
    /\ dv' = dv + 1
    /\ UNCHANGED <<visited, recStack, path, valuesPath, depth, stack,
                   total_cycles_found, pfile, output, dpc, trace, firstRun,
                   parserVars, graphVars, loadVars>>

\* Lines 387-395: the cleanup after the loop.
Cleanup ==
    /\ dpc = "loop" /\ dv >= G.vertexAmount
    /\ visited' = <<>> /\ recStack' = <<>> /\ path' = <<>>
    /\ valuesPath' = <<>>
    /\ pfile' = "closed"
    /\ dpc' = "returned"
    /\ UNCHANGED <<depth, stack, dv, total_cycles_found, output, trace, firstRun,
                   parserVars, graphVars, loadVars>>

\* Lines 281-286: an edge to an unvisited vertex: recurse.
TreeEdge ==
    /\ dpc = "rec" /\ ~AtNull(Top)
    /\ LET curr == CurrEdge(Top)
           w    == curr.destination
       IN  /\ IsUnvisited(w)
           /\ Enter(w, [valuesPath EXCEPT ![depth - 1] = curr.transactionValue])
           /\ trace' = trace \o <<EdgeEvent(Top), EnterEvent(w)>>
    /\ UNCHANGED <<dv, total_cycles_found, pfile, output, firstRun,
                   parserVars, graphVars, loadVars>>

\* Lines 281-325: an edge to a vertex on the recursion stack: write the record.
BackEdge ==
    /\ dpc = "rec" /\ ~AtNull(Top)
    /\ LET curr == CurrEdge(Top)
           w    == curr.destination
           vals == [valuesPath EXCEPT ![depth - 1] = curr.transactionValue]
       IN  /\ ~IsUnvisited(w) /\ OnRecStack(w)
           /\ valuesPath' = vals
           /\ total_cycles_found' = total_cycles_found + 1
           /\ output' = Append(output, CycleRecord(vals, total_cycles_found + 1))
    /\ stack' = [stack EXCEPT ![Len(stack)].curr = @ + 1]
    /\ trace' = Append(trace, EdgeEvent(Top))
    /\ UNCHANGED <<visited, recStack, path, depth, dv, pfile, dpc, firstRun,
                   parserVars, graphVars, loadVars>>

\* Lines 281-325: an edge to a finished vertex: nothing is done.
CrossEdge ==
    /\ dpc = "rec" /\ ~AtNull(Top)
    /\ LET curr == CurrEdge(Top)
           w    == curr.destination
       IN  /\ ~IsUnvisited(w) /\ ~OnRecStack(w)
           /\ valuesPath' = [valuesPath EXCEPT ![depth - 1] = curr.transactionValue]
    /\ stack' = [stack EXCEPT ![Len(stack)].curr = @ + 1]
    /\ trace' = Append(trace, EdgeEvent(Top))
    /\ UNCHANGED <<visited, recStack, path, depth, dv, total_cycles_found, pfile,
                   output, dpc, firstRun, parserVars, graphVars, loadVars>>

\* Lines 327-328, then line 325 of the caller or the v++ of the loop.
Return ==
    /\ dpc = "rec" /\ AtNull(Top)
    /\ recStack' = [recStack EXCEPT ![Top.v] = 0]
    /\ depth' = depth - 1
    /\ IF Len(stack) > 1
       THEN /\ stack' = [SubSeq(stack, 1, Len(stack) - 1)
                            EXCEPT ![Len(stack) - 1].curr = @ + 1]
            /\ UNCHANGED <<dv, dpc>>
       ELSE /\ stack' = <<>>
            /\ dv' = dv + 1
            /\ dpc' = "loop"
    /\ UNCHANGED <<visited, path, valuesPath, total_cycles_found, pfile, output,
                   trace, firstRun, parserVars, graphVars, loadVars>>

(***************************************************************************)
(* The detection run: a graph built by insertEdge calls, then one          *)
(* depthFirstSearch.                                                       *)
(***************************************************************************)
InitDFS ==
    /\ \E V \in 0..MaxV : G = initGraph(V)
    /\ call = NoCall /\ ret = 0 /\ inserted = <<>>
    /\ ParserIdle
    /\ visited = <<>> /\ recStack = <<>> /\ path = <<>> /\ valuesPath = <<>>
    /\ depth = 0 /\ stack = <<>> /\ dv = 0 /\ total_cycles_found = 0
    /\ pfile = "none" /\ output = <<>> /\ dpc = "building"
    /\ trace = <<>> /\ firstRun = <<>>
    /\ LoadIdle

BuildEdgeUpTo(n) ==
    /\ dpc = "building" /\ G.edgesAmount < n
    /\ \E v \in 0..(G.vertexAmount - 1), w \in 0..(G.vertexAmount - 1),
          value \in EdgeValues :
          G' = insertEdge(G, v, w, value, TRUE).G
    /\ UNCHANGED <<call, ret, inserted, parserVars, dfsVars, loadVars>>

BuildEdge == BuildEdgeUpTo(MaxEdges)

\* The same, for graphs of one more edge.
BuildEdgeWide == BuildEdgeUpTo(MaxEdges + 1)

BuildDone ==
    /\ dpc = "building"
    /\ dpc' = "built"
    /\ UNCHANGED <<visited, recStack, path, valuesPath, depth, stack, dv,
                   total_cycles_found, pfile, output, trace, firstRun,
                   parserVars, graphVars, loadVars>>

NextDFS ==
    \/ BuildEdge
    \/ BuildDone
    \/ DepthFirstSearch
    \/ RootCall
    \/ RootSkip
    \/ Cleanup
    \/ TreeEdge
    \/ BackEdge
    \/ CrossEdge
    \/ Return

SpecDFS == InitDFS /\ [][NextDFS]_vars

NextDFSWide ==
    \/ BuildEdgeWide
    \/ BuildDone
    \/ DepthFirstSearch
    \/ RootCall
    \/ RootSkip
    \/ Cleanup
    \/ TreeEdge
    \/ BackEdge
    \/ CrossEdge
    \/ Return

SpecDFSWide == InitDFS /\ [][NextDFSWide]_vars

(***************************************************************************)
(* The repeated detection run: depthFirstSearch is called a second time on *)
(* the same graph, with the same counter variable of the caller.           *)
(***************************************************************************)
\* The first call went through its loop and has returned; its results are kept
\* (history) and the second call is about to be made: the locals of
\* depthFirstSearch are new.
Rerun ==
    /\ dpc = "returned" /\ firstRun = <<>>
    /\ dv = G.vertexAmount
    /\ firstRun' = <<[total_cycles_found |-> total_cycles_found, output |-> output,
                      pfile |-> pfile, dv |-> dv]>>
    /\ visited' = <<>> /\ recStack' = <<>> /\ path' = <<>> /\ valuesPath' = <<>>
    /\ depth' = 0 /\ stack' = <<>> /\ dv' = 0
    /\ pfile' = "none"
    /\ trace' = <<>>
    /\ dpc' = "built"
    /\ UNCHANGED <<total_cycles_found, output, parserVars, graphVars, loadVars>>

NextRerun ==
    \/ BuildEdge
    \/ BuildDone
    \/ DepthFirstSearch
    \/ RootCall
    \/ RootSkip
    \/ Cleanup
    \/ TreeEdge
    \/ BackEdge
    \/ CrossEdge
    \/ Return
    \/ Rerun

SpecRerun == InitDFS /\ [][NextRerun]_vars

(***************************************************************************)
(* graph.c: the hash map, addAllVertexToHashmap, hashToGraph, loadGraph.   *)
(* fscanf("%42s %42s %99s") reads the next three whitespace-separated      *)
(* fields of the file wherever the line breaks are; the fields of the      *)
(* model are shorter than the widths 42 and 99.                            *)
(***************************************************************************)
RECURSIVE Stream(_)
Stream(lines) == IF lines = <<>> THEN <<>> ELSE Head(lines) \o Stream(Tail(lines))

\* fscanf(file, "%42s %42s %99s", from_ad, to_ad, value_str) at position pos:
\* the count returned (3, or fewer at the end of the file) and the new position.
fscanf3(stream, pos) ==
    IF pos + 2 <= Len(stream)
    THEN [n |-> 3, from_ad |-> stream[pos], to_ad |-> stream[pos + 1],
          value_str |-> stream[pos + 2], pos |-> pos + 3]
    ELSE [n |-> IF pos > Len(stream) THEN -1 ELSE Len(stream) - pos + 1,
          from_ad |-> <<>>, to_ad |-> <<>>, value_str |-> <<>>,
          pos |-> Len(stream) + 1]

HASH_FIND_STR(map, name) == name \in DOMAIN map

\* addToHash(name, &current_index): [map, index] after the call.
\* A variant that takes a new index on every call, found or not.
addToHash_alwaysConsume(map, name, current_index) ==
    IF ~HASH_FIND_STR(map, name)
    THEN [map |-> (name :> current_index) @@ map, index |-> current_index + 1]
    ELSE [map |-> map, index |-> current_index + 1]

addToHash(map, name, current_index) ==
    IF ~HASH_FIND_STR(map, name)
    THEN [map |-> (name :> current_index) @@ map, index |-> current_index + 1]
    ELSE [map |-> map, index |-> current_index]

getVertexIndex(map, name) == map[name]

\* Lines 63-66: one iteration of the loop of addAllVertexToHashmap.
\* A variant that interns the source of a record only.
AddVertexRecord_sourceOnly ==
    /\ lpc = "pass1"
    /\ LET r  == fscanf3(Stream(file), fpos)
           h1 == addToHash(vertex_map, r.from_ad, index)
       IN  /\ r.n = 3
           /\ fpos' = r.pos
           /\ vertex_map' = h1.map
           /\ index' = h1.index
    /\ UNCHANGED <<file, ti, lpc, parserVars, graphVars, dfsVars>>

AddVertexRecord ==
    /\ lpc = "pass1"
    /\ LET r  == fscanf3(Stream(file), fpos)
           h1 == addToHash(vertex_map, r.from_ad, index)
           h2 == addToHash(h1.map, r.to_ad, h1.index)
       IN  /\ r.n = 3
           /\ fpos' = r.pos
           /\ vertex_map' = h2.map
           /\ index' = h2.index
    /\ UNCHANGED <<file, ti, lpc, parserVars, graphVars, dfsVars>>

\* Lines 63 and 67, then lines 153-158 of loadGraph: the loop ends, the count is
\* returned, the file is rewound, the graph is created and hashToGraph is entered
\* with totalTransactions = graph->vertexAmount.
AddAllVertexReturn ==
    /\ lpc = "pass1"
    /\ fscanf3(Stream(file), fpos).n # 3
    /\ fpos' = 1
    /\ G' = initGraph(index)
    /\ ti' = 0
    /\ lpc' = "pass2"
    /\ UNCHANGED <<file, vertex_map, index, call, ret, inserted, parserVars, dfsVars>>

\* Lines 111-115: fscanf does not return 3: warning, continue.
SkipMalformed ==
    /\ lpc = "pass2" /\ ti < G.vertexAmount
    /\ LET r == fscanf3(Stream(file), fpos)
       IN  /\ r.n # 3
           /\ fpos' = r.pos
    /\ ti' = ti + 1
    /\ UNCHANGED <<file, vertex_map, index, lpc, parserVars, graphVars, dfsVars>>

\* Lines 111-120: the value does not parse: warning, continue.
SkipUnparsable ==
    /\ lpc = "pass2" /\ ti < G.vertexAmount
    /\ LET r  == fscanf3(Stream(file), fpos)
           pr == parse_wei_optimized(ctx, r.value_str, out)
       IN  /\ r.n = 3
           /\ pr.rc # 0
           /\ fpos' = r.pos
           /\ s' = r.value_str
           /\ rc' = pr.rc /\ out' = pr.out /\ ctx' = pr.ctx
    /\ ti' = ti + 1
    /\ UNCHANGED <<file, vertex_map, index, lpc, ppc, graphVars, dfsVars>>

\* Lines 111-125: the value parses: both endpoints are looked up and the edge is
\* inserted.  A lookup that misses dereferences NULL.
LoadEdge ==
    /\ lpc = "pass2" /\ ti < G.vertexAmount
    /\ LET r  == fscanf3(Stream(file), fpos)
           pr == parse_wei_optimized(ctx, r.value_str, out)
       IN  /\ r.n = 3
           /\ pr.rc = 0
           /\ fpos' = r.pos
           /\ s' = r.value_str
           /\ rc' = pr.rc /\ out' = pr.out /\ ctx' = pr.ctx
           /\ IF HASH_FIND_STR(vertex_map, r.from_ad) /\ HASH_FIND_STR(vertex_map, r.to_ad)
              THEN LET from_index == getVertexIndex(vertex_map, r.from_ad)
                       to_index   == getVertexIndex(vertex_map, r.to_ad)
                       ie == insertEdge(G, from_index, to_index, pr.out, TRUE)
                   IN  /\ G' = ie.G
                       /\ call' = [v |-> from_index, w |-> to_index, value |-> pr.out]
                       /\ ret' = ie.ret
                       /\ ti' = ti + 1
                       /\ lpc' = lpc
              ELSE /\ lpc' = "segfault"
                   /\ UNCHANGED <<G, call, ret, ti>>
    /\ UNCHANGED <<file, vertex_map, index, ppc, inserted, dfsVars>>

\* Lines 111 and 127-128, then lines 163-164: hashToGraph and loadGraph return.
HashToGraphReturn ==
    /\ lpc = "pass2" /\ ti >= G.vertexAmount
    /\ lpc' = "loaded"
    /\ UNCHANGED <<file, fpos, vertex_map, index, ti, parserVars, graphVars, dfsVars>>

(***************************************************************************)
(* The loading run: loadGraph on an input file.                            *)
(***************************************************************************)
Ids == {<<"a">>, <<"b">>, <<"c">>}

ValueTokens == {<<"7">>, <<"x">>}

WellFormedLines ==
    {<<f, t, v>> : f \in Ids, t \in Ids, v \in ValueTokens}
        \cup { << <<"a">>, <<"b">>, <<"2", "e", "1">> >>,
               << <<"b">>, <<"c">>, <<"1", ".", "5">> >> }

MalformedLines ==
    { << <<"a">>, <<"b">> >>, << <<"b">>, <<"c">>, <<"7">>, <<"a">> >> }

Lines == WellFormedLines \cup MalformedLines

Files == UNION {[1..n -> Lines] : n \in 0..MaxLines}

InitLoad ==
    /\ file \in Files
    /\ fpos = 1 /\ vertex_map = <<>> /\ index = 0 /\ ti = 0
    /\ lpc = "pass1"
    /\ s = <<>> /\ ctx = parse_wei_ctx_create /\ out = mpz_init /\ rc = 0 /\ ppc = "idle"
    /\ GraphIdle
    /\ DfsIdle

NextLoad ==
    \/ AddVertexRecord
    \/ AddAllVertexReturn
    \/ SkipMalformed
    \/ SkipUnparsable
    \/ LoadEdge
    \/ HashToGraphReturn

SpecLoad == InitLoad /\ [][NextLoad]_vars

(***************************************************************************)
(* loadGraph as a function of the file: the same two passes, run to their  *)
(* end.                                                                    *)
(***************************************************************************)
\* Lines 59-68: [map, index] when the loop ends.
RECURSIVE addAllVertexToHashmap(_, _, _, _)
addAllVertexToHashmap(stream, pos, map, current_index) ==
    LET r == fscanf3(stream, pos)
    IN  IF r.n # 3 THEN [map |-> map, index |-> current_index]
        ELSE LET h1 == addToHash(map, r.from_ad, current_index)
                 h2 == addToHash(h1.map, r.to_ad, h1.index)
             IN  addAllVertexToHashmap(stream, r.pos, h2.map, h2.index)

\* Lines 104-129: the graph when the loop ends; a lookup that misses ends the
\* run with the graph as it is.
RECURSIVE hashToGraph(_, _, _, _, _, _, _, _)
hashToGraph(stream, pos, g, i, totalTransactions, map, c, parsed_value) ==
    IF i >= totalTransactions THEN g
    ELSE LET r == fscanf3(stream, pos)
         IN  IF r.n # 3
             THEN hashToGraph(stream, r.pos, g, i + 1, totalTransactions, map, c,
                              parsed_value)
             ELSE LET pr == parse_wei_optimized(c, r.value_str, parsed_value)
                  IN  IF pr.rc # 0
                      THEN hashToGraph(stream, r.pos, g, i + 1, totalTransactions, map,
                                       pr.ctx, pr.out)
                      ELSE IF ~(HASH_FIND_STR(map, r.from_ad)
                                  /\ HASH_FIND_STR(map, r.to_ad))
                      THEN g
                      ELSE hashToGraph(stream, r.pos,
                              insertEdge(g, getVertexIndex(map, r.from_ad),
                                         getVertexIndex(map, r.to_ad), pr.out, TRUE).G,
                              i + 1, totalTransactions, map, pr.ctx, pr.out)

\* Lines 137-165: [map, G] when loadGraph returns.
loadGraph(lines) ==
    LET pass1 == addAllVertexToHashmap(Stream(lines), 1, <<>>, 0)
        graph == initGraph(pass1.index)
    IN  [map |-> pass1.map,
         G   |-> hashToGraph(Stream(lines), 1, graph, 0, graph.vertexAmount, pass1.map,
                             parse_wei_ctx_create, mpz_init)]

(***************************************************************************)
(* The program run (main.c): loadGraph on the input file, then             *)
(* depthFirstSearch on the loaded graph; and, beside it, the parser run on *)
(* any token.                                                              *)
(***************************************************************************)
SignedLines ==
    { << <<"a">>, <<"b">>, <<"-", "7">> >>,
      << <<"b">>, <<"a">>, <<"2">> >>,
      << <<"b">>, <<"c">>, <<"+", "1", "e", "1">> >>,
      << <<"c">>, <<"a">>, <<"7">> >>,
      << <<"a">>, <<"a">>, <<"-", "1">> >>,
      << <<"c">>, <<"b">>, <<"1", "-">> >>,
      << <<"b">>, <<"b">>, <<"0">> >>,
      << <<"a">>, <<"c">>, <<"-", "2", "e", "-", "1">> >> }

SignedFiles == UNION {[1..n -> SignedLines] : n \in 0..MaxLines}

InitMain ==
    /\ file \in SignedFiles
    /\ fpos = 1 /\ vertex_map = <<>> /\ index = 0 /\ ti = 0
    /\ lpc = "pass1"
    /\ s = <<>> /\ ctx = parse_wei_ctx_create /\ out = mpz_init /\ rc = 0 /\ ppc = "idle"
    /\ GraphIdle
    /\ DfsIdle

\* main.c, lines 87-97: loadGraph has returned; the counter is set to 0 and
\* depthFirstSearch is called on the graph.
StartDetection ==
    /\ lpc = "loaded" /\ dpc = "idle"
    /\ total_cycles_found' = 0
    /\ dpc' = "built"
    /\ UNCHANGED <<visited, recStack, path, valuesPath, depth, stack, dv, pfile,
                   output, trace, firstRun, parserVars, graphVars, loadVars>>

NextMain ==
    \/ Parse
    \/ AddVertexRecord
    \/ AddAllVertexReturn
    \/ SkipMalformed
    \/ SkipUnparsable
    \/ LoadEdge
    \/ HashToGraphReturn
    \/ StartDetection
    \/ DepthFirstSearch
    \/ RootCall
    \/ RootSkip
    \/ Cleanup
    \/ TreeEdge
    \/ BackEdge
    \/ CrossEdge
    \/ Return

SpecMain == (InitParse \/ InitMain) /\ [][NextMain]_vars

(***************************************************************************)
(* The value grammar [+-]?[0-9]+(\.[0-9]+)?([eE][+-]?[0-9]+)? and what a   *)
(* token of it denotes: D * 10^(e - d), D the digits with the point        *)
(* removed, d the digits after the point, e the exponent.                  *)
(***************************************************************************)
AllDigits(str, from, to) == \A i \in from..to : str[i] \in Digits

RECURSIVE NatOf(_, _, _)
NatOf(str, from, to) ==
    IF to < from THEN 0 ELSE NatOf(str, from, to - 1) * 10 + DigitVal(str[to])

\* The splits [sg, ni, nf] of a token: sg sign characters, ni integer digits, nf
\* fraction digits, the rest being the exponent part.  At most one split exists.
GrammarSplits(str) ==
    { g \in [sg : 0..1, ni : 1..Len(str), nf : 0..Len(str)] :
        LET p == g.sg + g.ni + 1
            q == IF g.nf > 0 THEN p + g.nf + 1 ELSE p
            x == IF q + 1 <= Len(str) /\ str[q + 1] \in {"+", "-"} THEN q + 2 ELSE q + 1
        IN  /\ q <= Len(str) + 1
            /\ g.sg = 1 => str[1] \in {"+", "-"}
            /\ AllDigits(str, g.sg + 1, g.sg + g.ni)
            /\ g.nf > 0 => str[p] = "." /\ AllDigits(str, p + 1, p + g.nf)
            /\ q <= Len(str) =>
                  /\ str[q] \in {"e", "E"}
                  /\ x <= Len(str)
                  /\ AllDigits(str, x, Len(str)) }

InGrammar(str) == GrammarSplits(str) # {}

\* [sg, D, d, e] of a token of the grammar.
Denotation(str) ==
    LET g == CHOOSE g \in GrammarSplits(str) : TRUE
        p == g.sg + g.ni + 1
        q == IF g.nf > 0 THEN p + g.nf + 1 ELSE p
        neg == q + 1 <= Len(str) /\ str[q + 1] = "-"
        x == IF q + 1 <= Len(str) /\ str[q + 1] \in {"+", "-"} THEN q + 2 ELSE q + 1
        ev == IF q <= Len(str) THEN NatOf(str, x, Len(str)) ELSE 0
    IN  [sg |-> g.sg,
         D  |-> NatOf(str, g.sg + 1, g.sg + g.ni) * Pow10(g.nf) + NatOf(str, p + 1, p + g.nf),
         d  |-> g.nf,
         e  |-> IF neg THEN -ev ELSE ev]

NetPower(str) == Denotation(str).e - Denotation(str).d

\* D * 10^n is an integer (D < 10^9).
IsInteger(D, n) == n >= 0 \/ D = 0 \/ (-n <= 9 /\ D % Pow10(-n) = 0)

\* The mpz value v is exactly D * 10^n (D >= 0): the same decimal length and,
\* aligned, the same digits.
HasValue(v, D, n) ==
    IF D = 0 \/ v.m = 0 THEN D = 0 /\ v.m = 0
    ELSE LET k == IF v.z < n THEN v.z ELSE n
         IN  /\ v.m > 0
             /\ NumDigits(v.m) + v.z = NumDigits(D) + n
             /\ v.m * Pow10(v.z - k) = D * Pow10(n - k)

\* The mantissa region: the token up to its first 'e' or 'E'.
MantissaRegionEnd(str) ==
    IF \A i \in 1..Len(str) : str[i] \notin {"e", "E"} THEN Len(str)
    ELSE (CHOOSE i \in 1..Len(str) :
             str[i] \in {"e", "E"} /\ \A j \in 1..(i - 1) : str[j] \notin {"e", "E"}) - 1

\* A character of the region that is no digit, no first '.', no sign in first place.
HasInvalidMantissaChar(str) ==
    \E i \in 1..MantissaRegionEnd(str) :
        /\ str[i] \notin Digits
        /\ ~(str[i] = "." /\ \A j \in 1..(i - 1) : str[j] # ".")
        /\ ~(i = 1 /\ str[i] \in {"+", "-"})

HasNoMantissaDigit(str) == \A i \in 1..MantissaRegionEnd(str) : str[i] \notin Digits

C6_NonIntegerRejected ==
    (ppc = "done" /\ InGrammar(s) /\ NetPower(s) < 0
        /\ ~IsInteger(Denotation(s).D, NetPower(s)))
    => (rc = -2 /\ rc # -1 /\ rc # 0)

\* "1.23e1" was parsed and rejected as a non-integer.
C6_Witness ==
    /\ ppc = "done" /\ s = <<"1", ".", "2", "3", "e", "1">>
    /\ NetPower(s) = -1 /\ rc = -2

\* C7: an invalid character in the mantissa region, or no digit in it, yields -1,
\* also when the digits read would make a non-integer.
C7_SyntaxError ==
    (ppc = "done" /\ (HasInvalidMantissaChar(s) \/ HasNoMantissaDigit(s))) => rc = -1

\* A token with a fraction digit (a non-integer had it been valid) and an invalid
\* character was rejected with -1.
C7_Witness ==
    /\ ppc = "done" /\ s = <<"1", ".", "1", "x">>
    /\ HasInvalidMantissaChar(s) /\ rc = -1

\* C16: on a context used before, by calls that succeeded or failed with -1 or
\* -2, a call returns the code and the value a new context returns for the same
\* token, and leaves pow10_cache as it was: entry i is 10^i for 0 <= i < 60.
C16_ContextReusable ==
    [][ppc' = "done" =>
          LET fresh == parse_wei_optimized(parse_wei_ctx_create, s', out)
          IN  /\ rc' = fresh.rc
              /\ out' = fresh.out
              /\ ctx'.pow10_cache = ctx.pow10_cache
              /\ \A i \in 0..(POW10_CACHE_SIZE - 1) :
                    ctx'.pow10_cache[i] = [m |-> 1, z |-> i]]_vars

\* After a call that failed with -2 (its remainder is still in the context),
\* "1.23e4" was parsed to 12300.
C16_Witness ==
    /\ ppc = "done"
    /\ ctx.remainder # mpz_init
    /\ s = <<"1", ".", "2", "3", "e", "4">>
    /\ rc = 0 /\ out = [m |-> 123, z |-> 2]

\* C21: parse_wei_optimized succeeds only on tokens of the value grammar: every
\* token outside it (an empty exponent, a character that is no digit, a second
\* 'e', a '.' without a digit before or after it) is rejected with -1.
C21_OnlyGrammarAccepted ==
    (ppc = "done" /\ ~InGrammar(s)) => rc = -1

(***************************************************************************)
(* Claims on insertEdge (SpecInsert)                                       *)
(***************************************************************************)
OutOfRange(c, g) ==
    c.v < 0 \/ c.v >= g.vertexAmount \/ c.w < 0 \/ c.w >= g.vertexAmount

\* C9: an insertEdge call with a source or destination outside [0, vertexAmount)
\* returns 0 and leaves the graph as it was: every adjacency list and edgesAmount.
C9_OutOfRangeRejected ==
    [][OutOfRange(call', G) => (ret' = 0 /\ G' = G)]_vars

\* An out-of-range call was made on a graph that already holds an edge.
C9_Witness ==
    /\ G.edgesAmount > 0
    /\ OutOfRange(call, G)
    /\ call.v \in 0..(G.vertexAmount - 1)
    /\ ret = 0

RECURSIVE Reverse(_)
Reverse(sq) == IF sq = <<>> THEN <<>> ELSE Append(Reverse(Tail(sq)), Head(sq))

RECURSIVE EdgesFrom(_, _)
EdgesFrom(calls, v) ==
    IF calls = <<>> THEN <<>>
    ELSE IF Head(calls).v = v
    THEN <<[destination |-> Head(calls).w, transactionValue |-> Head(calls).value]>>
            \o EdgesFrom(Tail(calls), v)
    ELSE EdgesFrom(Tail(calls), v)

RECURSIVE SumLen(_, _)
SumLen(adj, n) == IF n = 0 THEN 0 ELSE Len(adj[n - 1]) + SumLen(adj, n - 1)

\* C10: the adjacency list of v holds exactly the edges successfully inserted with
\* source v, most recent first, with the values given; parallel edges are kept;
\* edgesAmount is the number of successful insertions and the total list length.
C10_AdjacencyIsInsertLog ==
    /\ DOMAIN G.adjList = 0..(G.vertexAmount - 1)
    /\ \A v \in 0..(G.vertexAmount - 1) : G.adjList[v] = Reverse(EdgesFrom(inserted, v))
    /\ G.edgesAmount = Len(inserted)
    /\ G.edgesAmount = SumLen(G.adjList, G.vertexAmount)

\* Two parallel edges with different values, the later insertion first.
C10_Witness ==
    \E v \in 0..(G.vertexAmount - 1) :
        /\ Len(G.adjList[v]) >= 2
        /\ G.adjList[v][1].destination = G.adjList[v][2].destination
        /\ G.adjList[v][1].transactionValue # G.adjList[v][2].transactionValue
        /\ inserted[Len(inserted)].value = G.adjList[v][1].transactionValue
        /\ inserted[Len(inserted)].v = v

(***************************************************************************)
(* Claims on the cycle detection (SpecDFS)                                 *)
(***************************************************************************)
HasEdge(a, b) == \E i \in 1..Len(G.adjList[a]) : G.adjList[a][i].destination = b

\* The run went through the whole loop of depthFirstSearch and returned.
Completed == dpc = "returned" /\ G.vertexAmount > 0 /\ dv = G.vertexAmount

\* The simple directed cycles of G, as vertex sequences.
SimpleCycles ==
    { c \in UNION {[1..k -> 0..(G.vertexAmount - 1)] : k \in 1..G.vertexAmount} :
        /\ \A i, j \in 1..Len(c) : i # j => c[i] # c[j]
        /\ \A i \in 1..Len(c) : HasEdge(c[i], c[(i % Len(c)) + 1]) }

IsRotation(a, b) ==
    /\ Len(a) = Len(b)
    /\ \E r \in 0..(Len(a) - 1) :
          \A i \in 1..Len(a) : a[i] = b[((i - 1 + r) % Len(a)) + 1]

Vertices(rec) == SubSeq(rec.printed, 1, Len(rec.printed) - 1)

\* C2: after depthFirstSearch, every simple directed cycle of G is the vertex
\* sequence of some emitted record, up to rotation.
C2_EveryCycleReported ==
    Completed =>
        \A c \in SimpleCycles :
            \E k \in 1..Len(output) : IsRotation(Vertices(output[k]), c)

MaxOfTaken(rec) ==
    CHOOSE m \in {rec.taken[i] : i \in 1..Len(rec.taken)} :
        \A i \in 1..Len(rec.taken) : mpz_cmp(rec.taken[i], m) <= 0

\* C3: the Max Flow of every emitted record is the maximum of the values of the
\* edges traversed along its path, the closing edge included.
C3_MaxFlowIsPathMaximum ==
    \A k \in 1..Len(output) : output[k].max = MaxOfTaken(output[k])

\* C4: every emitted record is a cycle of G: v0..vk pairwise distinct, an edge of
\* G from each to the next and from vk back to v0, the index printed last.
C4_RecordsAreCycles ==
    \A k \in 1..Len(output) :
        LET pr == output[k].printed
            n  == Len(pr) - 1
        IN  /\ n >= 1
            /\ pr[n + 1] = pr[1]
            /\ \A i, j \in 1..n : i # j => pr[i] # pr[j]
            /\ \A i \in 1..n : pr[i] \in 0..(G.vertexAmount - 1) /\ HasEdge(pr[i], pr[i + 1])

\* A finished run that reported a cycle below the root of its recursion path:
\* the record does not start at the first vertex entered.
C4_Witness ==
    /\ Completed
    /\ \E k \in 1..Len(output) :
          /\ Len(output[k].printed) = 3
          /\ output[k].printed[1] # 0
          /\ HasEdge(0, output[k].printed[1])

\* C12: after a run, every self-loop edge v -> v with value x has a record whose
\* path is the single vertex v (printed "v -> v") with Max Flow x.
C12_SelfLoopReported ==
    Completed =>
        \A v \in 0..(G.vertexAmount - 1) :
            \A i \in 1..Len(G.adjList[v]) :
                G.adjList[v][i].destination = v =>
                    \E k \in 1..Len(output) :
                        /\ output[k].printed = <<v, v>>
                        /\ output[k].edge = [ev |-> "edge", v |-> v, i |-> i]
                        /\ output[k].max = G.adjList[v][i].transactionValue

\* The traversal of depthFirstSearch is under way or has run to its end.
Traversing == dpc \in {"loop", "rec"} \/ Completed

TracePos(e) == CHOOSE p \in 1..Len(trace) : trace[p] = e

\* C13: within one run the records are numbered 1, 2, ..., K in the order their
\* back edges are examined, and the counter is K, the number of records written.
C13_NumberedInDiscoveryOrder ==
    Traversing =>
        /\ \A k \in 1..Len(output) : output[k].n = k
        /\ total_cycles_found = Len(output)
        /\ \A k \in 1..Len(output) : \E p \in 1..Len(trace) : trace[p] = output[k].edge
        /\ \A j, k \in 1..Len(output) :
              j < k => TracePos(output[j].edge) < TracePos(output[k].edge)

\* A finished run on two vertex-disjoint cycles wrote two records, the cycle of
\* the lower root first.
C13_Witness ==
    /\ Completed
    /\ Len(output) = 2 /\ total_cycles_found = 2
    /\ output[1].n = 1 /\ output[2].n = 2
    /\ output[1].printed = <<0, 0>>
    /\ output[2].printed = <<1, 2, 1>>

\* The call of depthFirstSearch went through its whole loop and returned (at
\* once when the graph has no vertex); d is the loop variable at the return.
RanThrough(d) == d = G.vertexAmount

\* C14: depthFirstSearch does not modify the graph, and a second run on the
\* unmodified graph ends with the same cycle count and the same sequence of cycle
\* records (numbers, paths and Max Flow values) as the first.
C14_RerunIsIdempotent ==
    /\ [][dpc # "building" => G' = G]_vars
    /\ []((firstRun # <<>> /\ dpc = "returned" /\ RanThrough(dv)
              /\ RanThrough(firstRun[1].dv))
            => (/\ total_cycles_found = firstRun[1].total_cycles_found
                /\ output = firstRun[1].output))

\* Two runs to the end on a graph with two cycles.
C14_Witness ==
    /\ firstRun # <<>> /\ dpc = "returned" /\ RanThrough(dv)
    /\ RanThrough(firstRun[1].dv)
    /\ G.vertexAmount > 0
    /\ Len(firstRun[1].output) = 2
    /\ total_cycles_found = 2

\* C15: when the output file cannot be opened, depthFirstSearch returns without
\* a traversal step: no vertex is entered, no record is written, the four scratch
\* buffers are released and the graph is unchanged.
C15_OpenFailureIsClean ==
    [][(pfile' = "NULL" /\ pfile # "NULL") =>
          /\ dpc' = "returned"
          /\ visited' = <<>> /\ recStack' = <<>> /\ path' = <<>> /\ valuesPath' = <<>>
          /\ stack' = <<>> /\ depth' = depth /\ trace' = trace /\ trace = <<>>
          /\ output' = output
          /\ total_cycles_found' = total_cycles_found
          /\ G' = G]_vars

\* The file could not be opened for a graph that has a cycle.
C15_Witness ==
    /\ pfile = "NULL" /\ dpc = "returned"
    /\ G.vertexAmount > 0 /\ HasEdge(0, 0)
    /\ visited = <<>> /\ output = <<>> /\ trace = <<>>

HasCycle == SimpleCycles # {}

VState(v) ==
    IF visited[v] = 0 THEN "Unvisited"
    ELSE IF recStack[v] # 0 THEN "OnStack"
    ELSE "Visited"

BuffersLive == dpc \in {"loop", "rec"}

Occurrences(e) == Cardinality({p \in 1..Len(trace) : trace[p] = e})

AllEdgeEvents ==
    UNION {{[ev |-> "edge", v |-> v, i |-> i] : i \in 1..Len(G.adjList[v])} :
              v \in 0..(G.vertexAmount - 1)}

\* C18: during a run each vertex moves only Unvisited -> OnStack -> Visited;
\* recursiveDFS is entered once per vertex, never again for a Visited vertex that
\* another edge reaches; each edge is examined once; when the loop of
\* depthFirstSearch ends every vertex is Visited.
C18_VertexStatesAdvance ==
    /\ [][(BuffersLive /\ BuffersLive') =>
            \A v \in 0..(G.vertexAmount - 1) :
                \/ VState(v)' = VState(v)
                \/ VState(v) = "Unvisited" /\ VState(v)' = "OnStack"
                \/ VState(v) = "OnStack" /\ VState(v)' = "Visited"]_vars
    /\ [](Traversing =>
            /\ \A v \in 0..(G.vertexAmount - 1) :
                  /\ Occurrences(EnterEvent(v)) <= 1
                  /\ BuffersLive =>
                        (Occurrences(EnterEvent(v)) = 1 <=> VState(v) # "Unvisited")
            /\ \A e \in AllEdgeEvents : Occurrences(e) <= 1
            /\ \A p \in 1..Len(trace) :
                  trace[p].ev = "edge" => trace[p] \in AllEdgeEvents)
    /\ []((dpc = "loop" /\ dv = G.vertexAmount) =>
            \A v \in 0..(G.vertexAmount - 1) : VState(v) = "Visited")
    /\ [](Completed =>
            /\ \A v \in 0..(G.vertexAmount - 1) : Occurrences(EnterEvent(v)) = 1
            /\ \A e \in AllEdgeEvents : Occurrences(e) = 1
            /\ Len(trace) = G.vertexAmount + G.edgesAmount)

\* A finished run in which the last vertex, already Visited, was reached again
\* by a second incoming edge.
C18_Witness ==
    /\ Completed
    /\ G.vertexAmount >= 3 /\ G.edgesAmount >= 2
    /\ Len(trace) = G.vertexAmount + G.edgesAmount
    /\ HasEdge(0, G.vertexAmount - 1) /\ HasEdge(1, G.vertexAmount - 1)
    /\ ~HasEdge(0, 1)

\* C19: during the traversal the vertices with recStack = 1 are the entries
\* path[0..depth-1], which are pairwise distinct and linked by edges of G;
\* valuesPath[i], i < depth-1, is the value of the edge taken from path[i] to
\* path[i+1]; 0 <= depth <= vertexAmount; depth is 0 whenever a root call has
\* returned.
C19_PathIsRecursionStack ==
    BuffersLive =>
        /\ 0 <= depth /\ depth <= G.vertexAmount
        /\ depth = Len(stack)
        /\ dpc = "loop" => depth = 0
        /\ dpc = "rec" => depth >= 1
        /\ {v \in 0..(G.vertexAmount - 1) : recStack[v] = 1}
              = {path[i] : i \in 0..(depth - 1)}
        /\ \A v \in 0..(G.vertexAmount - 1) : recStack[v] \in {0, 1}
        /\ \A i \in 0..(depth - 1) : path[i] = stack[i + 1].v
        /\ \A i, j \in 0..(depth - 1) : i # j => path[i] # path[j]
        /\ \A i \in 0..(depth - 2) :
              /\ HasEdge(path[i], path[i + 1])
              /\ CurrEdge(stack[i + 1]).destination = path[i + 1]
              /\ valuesPath[i] = CurrEdge(stack[i + 1]).transactionValue

\* The recursion is three vertices deep, over two edges of different values.
C19_Witness ==
    /\ dpc = "rec" /\ depth = 3
    /\ valuesPath[0] # valuesPath[1]
    /\ path[0] = 0 /\ recStack[path[2]] = 1

(***************************************************************************)
(* Claims on the loader (SpecLoad)                                         *)
(***************************************************************************)
\* The identifiers read by pass 1 from the first n fields (source, then
\* destination, of each complete record of three fields), in reading order.
IdsOf(stream, n) ==
    [k \in 1..(2 * (n \div 3)) |-> stream[3 * ((k - 1) \div 2) + ((k - 1) % 2) + 1]]

IdsRead ==
    IF lpc = "pass1" THEN IdsOf(Stream(file), fpos - 1)
    ELSE IdsOf(Stream(file), Len(Stream(file)))

\* The place of an identifier in order of first appearance, from 0.
FirstSeenRank(ids, name) ==
    LET first == CHOOSE k \in 1..Len(ids) :
                    ids[k] = name /\ \A j \in 1..(k - 1) : ids[j] # name
    IN  Cardinality({ids[j] : j \in 1..(first - 1)})

\* C8: while and after addAllVertexToHashmap runs, the map is a bijection between
\* the distinct identifiers read and 0..N-1, in order of first appearance; the
\* next index, and the count returned (the graph's vertexAmount), is N.
C8_InternIsBijection ==
    lpc \in {"pass1", "pass2", "loaded"} =>
        LET ids == IdsRead
            N   == Cardinality({ids[k] : k \in 1..Len(ids)})
        IN  /\ DOMAIN vertex_map = {ids[k] : k \in 1..Len(ids)}
            /\ {vertex_map[name] : name \in DOMAIN vertex_map} = 0..(N - 1)
            /\ \A name \in DOMAIN vertex_map :
                  vertex_map[name] = FirstSeenRank(ids, name)
            /\ index = N
            /\ lpc # "pass1" => G.vertexAmount = N

\* Pass 1 has returned on an input that names three identifiers, the first of
\* them read again before the third is first seen.
C8_Witness ==
    /\ lpc = "pass2"
    /\ Len(IdsRead) = 6
    /\ G.vertexAmount = 3
    /\ IdsRead[1] = IdsRead[3]
    /\ vertex_map[IdsRead[2]] = 1
    /\ vertex_map[IdsRead[4]] = 2

AllWellFormed == \A k \in 1..Len(file) : Len(file[k]) = 3

Parses(tok) == parse_wei_optimized(parse_wei_ctx_create, tok, mpz_init).rc = 0

ParsedValue(tok) == parse_wei_optimized(parse_wei_ctx_create, tok, mpz_init).out

\* The edge a well-formed line stands for.
EdgeOfLine(ln) ==
    [v |-> FirstSeenRank(IdsRead, ln[1]), w |-> FirstSeenRank(IdsRead, ln[2]),
     value |-> ParsedValue(ln[3])]

\* How many edges v -> w with this value the graph holds.
EdgeCount(e) ==
    IF e.v \in DOMAIN G.adjList
    THEN Cardinality({i \in 1..Len(G.adjList[e.v]) :
            /\ G.adjList[e.v][i].destination = e.w
            /\ G.adjList[e.v][i].transactionValue = e.value})
    ELSE 0

ParsableLines == {k \in 1..Len(file) : Parses(file[k][3])}

\* C1: after loadGraph on well-formed lines, the graph holds exactly one edge per
\* line whose value parses (interned source and destination, parsed value) and
\* edgesAmount is the number of such lines, whatever the number of lines and of
\* identifiers.
C1_OneEdgePerParsableLine ==
    (lpc = "loaded" /\ AllWellFormed) =>
        /\ G.edgesAmount = Cardinality(ParsableLines)
        /\ \A k \in ParsableLines :
              EdgeCount(EdgeOfLine(file[k])) =
                  Cardinality({j \in ParsableLines : EdgeOfLine(file[j]) = EdgeOfLine(file[k])})

IsThreeFields(ln) == Len(ln) = 3

\* The file without its lines of a field count other than three.
WellFormedOnly(lines) == SelectSeq(lines, IsThreeFields)

\* C11: a line whose field count is not three is skipped as a unit: the vertices
\* and the graph loaded are those loaded from the file without such lines.
C11_MalformedLineSkipped ==
    lpc = "loaded" =>
        /\ vertex_map = loadGraph(WellFormedOnly(file)).map
        /\ G = loadGraph(WellFormedOnly(file)).G

\* C20: the lookups of pass 2 never miss: the record pass 2 is about to read has
\* both identifiers in the map pass 1 built, whatever the file ends with and
\* whatever its value tokens; every edge insertion of pass 2 succeeds.
C20_LookupNeverMisses ==
    /\ lpc # "segfault"
    /\ lpc = "pass2" =>
          LET r == fscanf3(Stream(file), fpos)
          IN  r.n = 3 =>
                /\ HASH_FIND_STR(vertex_map, r.from_ad)
                /\ HASH_FIND_STR(vertex_map, r.to_ad)
    /\ (lpc \in {"pass2", "loaded"} /\ G.edgesAmount > 0) =>
          /\ ret = 1
          /\ call.v \in 0..(G.vertexAmount - 1)
          /\ call.w \in 0..(G.vertexAmount - 1)

\* A file of an unparsable value, a good record and a trailing incomplete record
\* was loaded: one record skipped, one edge inserted.
C20_Witness ==
    /\ lpc = "loaded"
    /\ Len(file) >= 3 /\ Len(Stream(file)) % 3 = 2
    /\ Len(file[1]) = 3 /\ file[1][3] = <<"x">>
    /\ G.edgesAmount = 1 /\ ret = 1
    /\ ti = G.vertexAmount

(***************************************************************************)
(* Claims on the program run (SpecMain)                                    *)
(***************************************************************************)
\* parse_wei_optimized has been called on s: by the parser run, or by pass 2.
Called == ppc = "done" \/ (lpc \in {"pass2", "loaded"} /\ s # <<>>)

FreshParse(tok) == parse_wei_optimized(parse_wei_ctx_create, tok, mpz_init)

====
